---- MODULE Spec2Model ----
(***************************************************************************)
(* Model of homework.py: a polling bot that queries the homework-review    *)
(* API, renders the status of the first homework and relays changes to a   *)
(* chat.  The program is one process, main(); its position is pc.          *)
(*                                                                         *)
(* Texts: the module language has ASCII strings only, so every Russian     *)
(* literal of the source is written in Latin transliteration, one literal  *)
(* of the model per literal of the source.  Concatenation and              *)
(* interpolation are done as the code does them.                           *)
(*                                                                         *)
(* Python values are tagged records: None, Str(s), List(items), Dict(d)    *)
(* where d is a function from the keys present to their values.            *)
(***************************************************************************)
EXTENDS Integers, Sequences, FiniteSets, TLC

VARIABLES
    env,             \* the three module-level credentials (lines 15-17)
    pc,              \* position of main()
    timestamp,       \* main's local `timestamp` (the watermark)
    last_status,     \* main's local `last_status`
    error,           \* the exception raised in the try block, until the tick ends
    trace,           \* history: what main did since the last sleep began
    answer,          \* history: the HTTP exchange of the tick in progress
    before,          \* history: timestamp and last_status when the tick began,
                     \*          and what the tick before it did
    ticks            \* history: number of ticks begun, saturating at MaxTicks

vars == <<env, pc, timestamp, last_status, error, trace, answer, before, ticks>>

-----------------------------------------------------------------------------
(* Bounds of the model *)

MaxHomeworks == 2
MaxDate == 2
MaxTicks == 2

-----------------------------------------------------------------------------
(* Python values *)

None == [t |-> "None"]
Str(s) == [t |-> "str", v |-> s]
List(items) == [t |-> "list", items |-> items]
Dict(d) == [t |-> "dict", d |-> d]

IsDict(x) == x.t = "dict"
IsList(x) == x.t = "list"
IsStr(x) == x.t = "str"

\* hash(x) raises TypeError for a list or a dict, so does a lookup of x in a dict
Unhashable(x) == x.t \in {"list", "dict"}
UnhashableText(x) == "unhashable type: '" \o x.t \o "'"

\* f'{x}' of a hashable value
Format(x) == IF IsStr(x) THEN x.v ELSE "None"

Min(a, b) == IF a < b THEN a ELSE b

-----------------------------------------------------------------------------
(* Program constants *)

RETRY_PERIOD == 600

StartTime == 0

HTTP_OK == 200

HOMEWORK_VERDICTS ==
    [approved  |-> "Rabota proverena: revyueru vsyo ponravilos. Ura!",
     reviewing |-> "Rabota vzyata na proverku revyuerom.",
     rejected  |-> "Rabota proverena: u revyuera est zamechaniya."]

NoStatusText == "Status otsutstvuet"

ErrorPrefix == "Sboy v rabote programmy: "

TokenErrorText == "Odin iz tokenov ili neskolko ne opredeleny"

-----------------------------------------------------------------------------
(* Exceptions: a raised exception is a record of its class and argument.   *)

Exc(type, arg) == [type |-> type, arg |-> arg]

NoError == Exc("none", "")

\* exceptions.py: the classes imported on line 10 derive from Exception
CustomExceptions == {"EmptyResponseError", "TokenError", "ResponseToJSONError"}

BuiltinExceptions == {"Exception", "TypeError", "KeyError", "ValueError"}

\* a handler that names the classes it expects and leaves ValueError out
IsException_narrow(type) ==
    type \in (BuiltinExceptions \cup CustomExceptions) \ {"ValueError"}

\* `except Exception` (line 140) catches these classes
IsException(type) == type \in BuiltinExceptions \cup CustomExceptions

\* str(error): KeyError shows the repr of its argument, the others the argument
ErrText(err) == IF err.type = "KeyError" THEN "'" \o err.arg \o "'" ELSE err.arg

-----------------------------------------------------------------------------
(* Events of the history variable *)

QueryEv(from_date) == [ev |-> "query", from_date |-> from_date]
LogEv(level, msg) == [ev |-> "log", level |-> level, msg |-> msg]
SendEv(chat, text, ok) == [ev |-> "send", chat_id |-> chat, text |-> text, ok |-> ok]
\* a sleep, with what the tick it ends did: raised, left a send undelivered
SleepEv(secs, raised, undelivered) ==
    [ev |-> "sleep", secs |-> secs, raised |-> raised, undelivered |-> undelivered]

IsSend(e) == e.ev = "send"
IsSleep(e) == e.ev = "sleep"
IsQuery(e) == e.ev = "query"
IsLog(e) == e.ev = "log"

Sends(tr) == SelectSeq(tr, IsSend)
Sleeps(tr) == SelectSeq(tr, IsSleep)
Queries(tr) == SelectSeq(tr, IsQuery)
Logs(tr) == SelectSeq(tr, IsLog)

-----------------------------------------------------------------------------
(* Results of a call: a returned value or a raised exception, together     *)
(* with the history events (log entries, send attempts) the call produced. *)

Ret(val, evs) == [ok |-> TRUE, val |-> val, exc |-> NoError, evs |-> evs]
Raise(exc, evs) == [ok |-> FALSE, val |-> None, exc |-> exc, evs |-> evs]

-----------------------------------------------------------------------------
(* check_tokens, lines 40-49 *)

check_tokens_two(e) ==
    IF e.PRACTICUM_TOKEN = None \/ e.TELEGRAM_TOKEN = None
    THEN Raise(Exc("TokenError", TokenErrorText),
               <<LogEv("critical", TokenErrorText)>>)
    ELSE Ret(TRUE, <<>>)

check_tokens(e) ==
    IF e.PRACTICUM_TOKEN = None \/ e.TELEGRAM_TOKEN = None
       \/ e.TELEGRAM_CHAT_ID = None
    THEN Raise(Exc("TokenError", TokenErrorText),
               <<LogEv("critical", TokenErrorText)>>)
    ELSE Ret(TRUE, <<>>)

-----------------------------------------------------------------------------
(* send_message, lines 52-58.  delivered is the outcome of the messaging   *)
(* client: TRUE, or FALSE when bot.send_message raises TelegramError.     *)
(* The exception is logged and swallowed.                                  *)

TelegramErrorText == "Timed out"

\* a sender that tries a second time when the client fails
send_message_retry(chat, message, delivered) ==
    IF delivered
    THEN <<SendEv(chat, message, TRUE),
           LogEv("debug", "Soobshchenie uspeshno otpravleno")>>
    ELSE <<SendEv(chat, message, FALSE),
           LogEv("error", "Oshibka otpravki soobshcheniya: " \o TelegramErrorText),
           SendEv(chat, message, TRUE),
           LogEv("debug", "Soobshchenie uspeshno otpravleno")>>

send_message(chat, message, delivered) ==
    IF delivered
    THEN <<SendEv(chat, message, TRUE),
           LogEv("debug", "Soobshchenie uspeshno otpravleno")>>
    ELSE <<SendEv(chat, message, FALSE),
           LogEv("error", "Oshibka otpravki soobshcheniya: " \o TelegramErrorText)>>

-----------------------------------------------------------------------------
(* get_api_answer, lines 61-80.  net is what the HTTP exchange does:       *)
(*   kind "transport" : requests.get raises a RequestException             *)
(*   kind "http"      : a reply with status code `code`; its body either   *)
(*                      decodes to the JSON value `body` (json = "ok"), or *)
(*                      .json() raises requests' JSONDecodeError, a        *)
(*                      RequestException (json = "request_error"), or,    *)
(*                      with older releases of the library, a plain        *)
(*                      ValueError (json = "value_error").                 *)

Transport(text) == [kind |-> "transport", text |-> text, code |-> 0,
                    json |-> "none", body |-> None]
Http(code, json, body) == [kind |-> "http", text |-> "", code |-> code,
                           json |-> json, body |-> body]

\* no exchange: the value of `answer` outside a tick
NoAnswer == [kind |-> "none", text |-> "", code |-> 0, json |-> "none", body |-> None]

\* the value of `before` outside a tick
NoTick == [timestamp |-> -1, last_status |-> "",
           after_raise |-> FALSE, after_undelivered |-> FALSE]

ApiErrorLog(text) ==
    LogEv("error", "Oshibka pri zaprose k API Yandeks.Praktikum: " \o text)

JsonErrorText == "Expecting value: line 1 column 1 (char 0)"

get_api_answer(ts, net) ==
    IF net.kind = "transport"
    THEN Ret(None, <<QueryEv(ts), ApiErrorLog(net.text)>>)
    ELSE IF net.code # HTTP_OK
    THEN Raise(Exc("Exception",
                   "Server vernul otvet s kodom, otlichnym ot 200: "
                       \o ToString(net.code)),
               <<QueryEv(ts)>>)
    ELSE IF net.json = "request_error"
    THEN Ret(None, <<QueryEv(ts), ApiErrorLog(JsonErrorText)>>)
    ELSE IF net.json = "value_error"
    THEN Raise(Exc("ValueError", JsonErrorText), <<QueryEv(ts)>>)
    ELSE Ret(net.body, <<QueryEv(ts)>>)

-----------------------------------------------------------------------------
(* check_response, lines 83-96 *)

HasKey(x, k) == k \in DOMAIN x.d

check_response_type_first(resp) ==
    IF ~IsDict(resp)
    THEN Raise(Exc("TypeError", "Otvet servera prihodit ne v vide slovarya"), <<>>)
    ELSE IF ~HasKey(resp, "homeworks")
    THEN Raise(Exc("EmptyResponseError",
                   "Otvet servera ne soderzhit klyuch homeworks"), <<>>)
    ELSE IF ~IsList(resp.d["homeworks"])
    THEN Raise(Exc("TypeError",
                   "Znachenie s klyuchom homeworks ne yavlyaetsya spiskom"), <<>>)
    ELSE IF ~HasKey(resp, "current_date")
    THEN Raise(Exc("EmptyResponseError",
                   "Otvet servera ne soderzhit klyuch current_date"), <<>>)
    ELSE Ret(resp.d["homeworks"], <<>>)

check_response(resp) ==
    IF ~IsDict(resp)
    THEN Raise(Exc("TypeError", "Otvet servera prihodit ne v vide slovarya"), <<>>)
    ELSE IF ~HasKey(resp, "homeworks")
    THEN Raise(Exc("EmptyResponseError",
                   "Otvet servera ne soderzhit klyuch homeworks"), <<>>)
    ELSE IF ~HasKey(resp, "current_date")
    THEN Raise(Exc("EmptyResponseError",
                   "Otvet servera ne soderzhit klyuch current_date"), <<>>)
    ELSE IF ~IsList(resp.d["homeworks"])
    THEN Raise(Exc("TypeError",
                   "Znachenie s klyuchom homeworks ne yavlyaetsya spiskom"), <<>>)
    ELSE Ret(resp.d["homeworks"], <<>>)

-----------------------------------------------------------------------------
(* parse_status, lines 99-113.  The value of `status` is any JSON value:  *)
(* the test `verdict not in HOMEWORK_VERDICTS` of line 107 hashes it, and  *)
(* raises TypeError for a list or an object.                               *)

\* verdict in HOMEWORK_VERDICTS, for a hashable verdict
InVerdicts(verdict) == IsStr(verdict) /\ verdict.v \in DOMAIN HOMEWORK_VERDICTS

\* a template that interpolates the status code, not its sentence
Render_code(homework_name, verdict) ==
    "Izmenilsya status proverki raboty \"" \o homework_name \o "\"."
        \o " " \o verdict

Render(homework_name, verdict) ==
    "Izmenilsya status proverki raboty \"" \o homework_name \o "\"."
        \o " " \o HOMEWORK_VERDICTS[verdict]

\* a parser that looks the verdict up with a default instead of rejecting it
parse_status_lenient(homework) ==
    IF ~HasKey(homework, "homework_name")
    THEN Raise(Exc("KeyError", "Otvet servera ne soderzhit klyuch homework_name"), <<>>)
    ELSE IF ~HasKey(homework, "status")
    THEN Raise(Exc("KeyError", "Otvet servera ne soderzhit klyuch status"), <<>>)
    ELSE IF Unhashable(homework.d["status"])
    THEN Raise(Exc("TypeError", UnhashableText(homework.d["status"])), <<>>)
    ELSE Ret("Izmenilsya status proverki raboty \"" \o homework.d["homework_name"]
                 \o "\"." \o " "
                 \o (IF InVerdicts(homework.d["status"])
                     THEN HOMEWORK_VERDICTS[homework.d["status"].v] ELSE "None"),
             <<>>)

parse_status_name_default(homework) ==
    IF ~HasKey(homework, "status")
    THEN Raise(Exc("KeyError", "Otvet servera ne soderzhit klyuch status"), <<>>)
    ELSE IF Unhashable(homework.d["status"])
    THEN Raise(Exc("TypeError", UnhashableText(homework.d["status"])), <<>>)
    ELSE IF ~InVerdicts(homework.d["status"])
    THEN Raise(Exc("ValueError",
                   "Server peredal nekorrektnyy ili pustoy status: "
                       \o Format(homework.d["status"])), <<>>)
    ELSE Ret(Render(IF HasKey(homework, "homework_name")
                    THEN homework.d["homework_name"] ELSE "None",
                    homework.d["status"].v), <<>>)

parse_status(homework) ==
    IF ~HasKey(homework, "homework_name")
    THEN Raise(Exc("KeyError", "Otvet servera ne soderzhit klyuch homework_name"), <<>>)
    ELSE IF ~HasKey(homework, "status")
    THEN Raise(Exc("KeyError", "Otvet servera ne soderzhit klyuch status"), <<>>)
    ELSE IF Unhashable(homework.d["status"])
    THEN Raise(Exc("TypeError", UnhashableText(homework.d["status"])), <<>>)
    ELSE IF ~InVerdicts(homework.d["status"])
    THEN Raise(Exc("ValueError",
                   "Server peredal nekorrektnyy ili pustoy status: "
                       \o Format(homework.d["status"])), <<>>)
    ELSE Ret(Render(homework.d["homework_name"], homework.d["status"].v), <<>>)

-----------------------------------------------------------------------------
(* Inputs: the environment at startup and what the API can answer.         *)

CredValues == {None, Str(""), Str("token")}

Credentials == {"PRACTICUM_TOKEN", "TELEGRAM_TOKEN", "TELEGRAM_CHAT_ID"}

\* every way of leaving credentials unset, with at most one set to ""
Environments ==
    { e \in [PRACTICUM_TOKEN : CredValues, TELEGRAM_TOKEN : CredValues,
             TELEGRAM_CHAT_ID : CredValues] :
        Cardinality({ c \in Credentials : e[c] = Str("") }) <= 1 }

HomeworkNames == {"hw1", "hw2"}
\* values of `status`: the three verdicts, a string that is none of them,
\* null, and a list (a value that cannot be hashed)
StatusValues ==
    { Str("approved"), Str("reviewing"), Str("rejected"), Str("unknown"),
      None, List(<<>>) }
HomeworkKeys == {"homework_name", "status"}

\* a homework entry: a mapping with any subset of the two keys
HomeworkDicts ==
    { [k \in K |-> IF k = "homework_name" THEN n ELSE st] :
        K \in SUBSET HomeworkKeys, n \in HomeworkNames, st \in StatusValues }

Homeworks == { Dict(h) : h \in HomeworkDicts }

\* entries after the first: well-formed ones, or ones that parse_status
\* would reject (an unknown status, no keys at all)
TailHomeworks ==
    { Dict([homework_name |-> "hw2", status |-> Str("approved")]),
      Dict([homework_name |-> "hw1", status |-> Str("unknown")]),
      Dict(<<>>) }

\* n copies of e
RECURSIVE Copies(_, _)
Copies(e, n) == IF n = 0 THEN <<>> ELSE <<e>> \o Copies(e, n - 1)

Tails == { Copies(e, n) : e \in TailHomeworks, n \in 0..(MaxHomeworks - 1) }

HomeworkLists == {<<>>} \cup { <<h>> \o tl : h \in Homeworks, tl \in Tails }

\* values of the `homeworks` key: lists, and two values that are not lists
HomeworksValues ==
    { List(l) : l \in HomeworkLists } \cup { None, Str("not a list") }

Dates == 1..MaxDate

ResponseKeys == {"homeworks", "current_date"}

ResponseDicts ==
    { Dict([k \in K |-> IF k = "homeworks" THEN hw ELSE cd]) :
        K \in SUBSET ResponseKeys, hw \in HomeworksValues, cd \in Dates }

\* JSON bodies: mappings, and two bodies that are not mappings
Bodies == ResponseDicts \cup { List(<<>>), None }

NonOKCodes == {404, 500}

ApiOutcomes ==
    { Transport("Connection aborted.") }
    \cup { Http(c, "none", None) : c \in NonOKCodes }
    \cup { Http(HTTP_OK, "request_error", None), Http(HTTP_OK, "value_error", None) }
    \cup { Http(HTTP_OK, "ok", b) : b \in Bodies }

\* telegram.Bot(token=...) rejects an empty token in the releases of the
\* library that do so (InvalidToken); a non-empty token is taken as valid
BotOutcomes(token) == IF token = Str("") THEN BOOLEAN ELSE {TRUE}

-----------------------------------------------------------------------------
(* The state machine of main(), lines 116-145.  The locals that live       *)
(* across iterations, timestamp and last_status, are state; response,      *)
(* homeworks and current_status are assigned and read inside one pass      *)
(* through the try block and are bound there.                              *)

Init ==
    /\ env \in Environments
    /\ pc = "main"
    /\ timestamp = StartTime
    /\ last_status = ""
    /\ error = NoError
    /\ trace = <<>>
    /\ answer = NoAnswer
    /\ before = NoTick
    /\ ticks = 0

\* a startup that takes the no-status text as the status already known
Startup_default_status ==
    /\ pc = "main"
    /\ LET r == check_tokens(env) IN
       IF ~r.ok
       THEN /\ pc' = "exited"
            /\ error' = r.exc
            /\ trace' = trace \o r.evs
            /\ UNCHANGED <<timestamp, last_status>>
       ELSE /\ pc' = "try"
            /\ timestamp' = StartTime
            /\ last_status' = NoStatusText
            /\ UNCHANGED <<error, trace>>
    /\ UNCHANGED <<env, answer, before, ticks>>

\* lines 118-122: check_tokens, the bot, the initial watermark and status
Startup ==
    /\ pc = "main"
    /\ LET r == check_tokens(env) IN
       IF ~r.ok
       THEN /\ pc' = "exited"
            /\ error' = r.exc
            /\ trace' = trace \o r.evs
            /\ UNCHANGED <<timestamp, last_status>>
       ELSE \E bot_ok \in BotOutcomes(env.TELEGRAM_TOKEN) :
            IF bot_ok
            THEN /\ pc' = "try"
                 /\ timestamp' = StartTime
                 /\ last_status' = ""
                 /\ UNCHANGED <<error, trace>>
            ELSE /\ pc' = "exited"
                 /\ error' = Exc("InvalidToken", "Invalid token")
                 /\ UNCHANGED <<timestamp, last_status, trace>>
    /\ UNCHANGED <<env, answer, before, ticks>>

\* a loop that only logs the empty-response error and does not report it
RaiseInTry_quiet_empty(exc, evs) ==
    /\ error' = exc
    /\ IF exc.type = "EmptyResponseError"
       THEN /\ trace' = evs \o <<LogEv("error", ErrorPrefix \o ErrText(exc))>>
            /\ pc' = "finally"
       ELSE /\ trace' = evs
            /\ pc' = "except"
    /\ UNCHANGED <<timestamp, last_status>>

\* where control goes when exc is raised inside the try block: to the
\* handler of line 140 if it catches the class, else through the finally
\* clause and out of main
RaiseInTry(exc, evs) ==
    /\ error' = exc
    /\ trace' = evs
    /\ pc' = IF IsException(exc.type) THEN "except" ELSE "finally_raise"
    /\ UNCHANGED <<timestamp, last_status>>

\* a tick with an empty text for an empty list of homeworks
current_status_of_blank(hw) ==
    IF hw.items # <<>> THEN parse_status(hw.items[1]) ELSE Ret("", <<>>)

\* a tick that reads the last homework of the list
current_status_of_last(hw) ==
    IF hw.items # <<>> THEN parse_status(hw.items[Len(hw.items)])
    ELSE Ret(NoStatusText, <<>>)

\* lines 130-133: the message of the tick
current_status_of(hw) ==
    IF hw.items # <<>> THEN parse_status(hw.items[1]) ELSE Ret(NoStatusText, <<>>)

\* a tick that notifies without comparing with the last message
Notify_always(resp, current, evs) ==
    /\ \E delivered \in BOOLEAN :
       trace' = evs
          \o send_message(env.TELEGRAM_CHAT_ID, current, delivered)
          \o <<LogEv("debug", "Soobshchenie uspeshno otpravleno: " \o current)>>
    /\ last_status' = current
    /\ timestamp' = resp.d["current_date"]
    /\ pc' = "finally"
    /\ UNCHANGED error

\* a tick that stores the new message before sending, and so sends nothing new
Notify_sends_old(resp, current, evs) ==
    /\ IF current # last_status
       THEN /\ \E delivered \in BOOLEAN :
               trace' = evs
                  \o send_message(env.TELEGRAM_CHAT_ID, last_status, delivered)
                  \o <<LogEv("debug", "Soobshchenie uspeshno otpravleno: "
                                          \o last_status)>>
            /\ last_status' = current
            /\ timestamp' = resp.d["current_date"]
       ELSE /\ trace' = evs
            /\ UNCHANGED <<last_status, timestamp>>
    /\ pc' = "finally"
    /\ UNCHANGED error

\* a tick that advances the watermark whether or not the status changed
Notify_advance_always(resp, current, evs) ==
    /\ IF current # last_status
       THEN /\ \E delivered \in BOOLEAN :
               trace' = evs
                  \o send_message(env.TELEGRAM_CHAT_ID, current, delivered)
                  \o <<LogEv("debug", "Soobshchenie uspeshno otpravleno: "
                                          \o current)>>
            /\ last_status' = current
       ELSE /\ trace' = evs
            /\ UNCHANGED last_status
    /\ timestamp' = resp.d["current_date"]
    /\ pc' = "finally"
    /\ UNCHANGED error

\* a tick that stores the message and the watermark only once delivered
Notify_store_on_delivery(resp, current, evs) ==
    /\ IF current # last_status
       THEN \E delivered \in BOOLEAN :
            /\ trace' = evs
                  \o send_message(env.TELEGRAM_CHAT_ID, current, delivered)
                  \o <<LogEv("debug", "Soobshchenie uspeshno otpravleno: "
                                          \o current)>>
            /\ last_status' = IF delivered THEN current ELSE last_status
            /\ timestamp' = IF delivered THEN resp.d["current_date"] ELSE timestamp
       ELSE /\ trace' = evs
            /\ UNCHANGED <<last_status, timestamp>>
    /\ pc' = "finally"
    /\ UNCHANGED error

\* a tick in which a statement after the send raises
Notify_raises_after_send(resp, current, evs) ==
    /\ IF current # last_status
       THEN /\ \E delivered \in BOOLEAN :
               trace' = evs
                  \o send_message(env.TELEGRAM_CHAT_ID, current, delivered)
            /\ error' = Exc("KeyError", "current_date")
            /\ pc' = "except"
       ELSE /\ trace' = evs
            /\ pc' = "finally"
            /\ UNCHANGED error
    /\ UNCHANGED <<last_status, timestamp>>

\* lines 134-139: compare, notify, store
Notify(resp, current, evs) ==
    /\ IF current # last_status
       THEN /\ \E delivered \in BOOLEAN :
               trace' = evs
                  \o send_message(env.TELEGRAM_CHAT_ID, current, delivered)
                  \o <<LogEv("debug", "Soobshchenie uspeshno otpravleno: "
                                          \o current)>>
            /\ last_status' = current
            /\ timestamp' = resp.d["current_date"]
       ELSE /\ trace' = evs
            /\ UNCHANGED <<last_status, timestamp>>
    /\ pc' = "finally"
    /\ UNCHANGED error

\* lines 124-139: one pass through the try block.  get_api_answer never
\* raises ResponseToJSONError, so the inner handler of lines 127-128 has
\* nothing to catch.
TryBody ==
    /\ pc = "try"
    /\ \E net \in ApiOutcomes :
       /\ answer' = net
       /\ LET q == get_api_answer(timestamp, net) IN
          IF ~q.ok THEN RaiseInTry(q.exc, q.evs)
          ELSE LET c == check_response(q.val) IN
          IF ~c.ok THEN RaiseInTry(c.exc, q.evs)
          ELSE LET p == current_status_of(c.val) IN
          IF ~p.ok THEN RaiseInTry(p.exc, q.evs)
          ELSE Notify(q.val, p.val, q.evs)
    /\ before' = [timestamp |-> timestamp, last_status |-> last_status,
                  after_raise |-> trace # <<>> /\ trace[1].raised,
                  after_undelivered |-> trace # <<>> /\ trace[1].undelivered]
    /\ ticks' = Min(ticks + 1, MaxTicks)
    /\ UNCHANGED env

\* a handler that logs the failure and does not send it
Except_log_only ==
    /\ pc = "except"
    /\ trace' = Append(trace, LogEv("error", ErrorPrefix \o ErrText(error)))
    /\ pc' = "finally"
    /\ UNCHANGED <<env, timestamp, last_status, error, answer, before, ticks>>

\* a handler that keeps its message as the last status
Except_stores_message ==
    /\ pc = "except"
    /\ LET message == ErrorPrefix \o ErrText(error) IN
       /\ \E delivered \in BOOLEAN :
          trace' = trace
              \o <<LogEv("error", message)>>
              \o send_message(env.TELEGRAM_CHAT_ID, message, delivered)
       /\ last_status' = message
    /\ pc' = "finally"
    /\ UNCHANGED <<env, timestamp, error, answer, before, ticks>>

\* lines 140-143
Except ==
    /\ pc = "except"
    /\ LET message == ErrorPrefix \o ErrText(error) IN
       \E delivered \in BOOLEAN :
       trace' = trace
           \o <<LogEv("error", message)>>
           \o send_message(env.TELEGRAM_CHAT_ID, message, delivered)
    /\ pc' = "finally"
    /\ UNCHANGED <<env, timestamp, last_status, error, answer, before, ticks>>

\* some send attempt of the trace was not delivered
Undelivered(tr) == \E i \in 1..Len(tr) : IsSend(tr[i]) /\ ~tr[i].ok

\* a loop whose sleep is the last statement of the try block
Finally_sleep_on_success ==
    /\ pc \in {"finally", "finally_raise"}
    /\ trace' = IF error = NoError
                THEN <<SleepEv(RETRY_PERIOD, FALSE, Undelivered(trace))>>
                ELSE <<>>
    /\ pc' = IF pc = "finally" THEN "try" ELSE "exited"
    /\ error' = IF pc = "finally" THEN NoError ELSE error
    /\ answer' = NoAnswer
    /\ before' = NoTick
    /\ UNCHANGED <<env, timestamp, last_status, ticks>>

\* lines 144-145: the sleep, then the next iteration of `while True`
\* (or, for an exception the handler did not catch, out of main)
Finally ==
    /\ pc \in {"finally", "finally_raise"}
    /\ trace' = <<SleepEv(RETRY_PERIOD, error # NoError, Undelivered(trace))>>
    /\ pc' = IF pc = "finally" THEN "try" ELSE "exited"
    /\ error' = IF pc = "finally" THEN NoError ELSE error
    /\ answer' = NoAnswer
    /\ before' = NoTick
    /\ UNCHANGED <<env, timestamp, last_status, ticks>>

Next ==
    \/ Startup
    \/ TryBody
    \/ Except
    \/ Finally

Spec == Init /\ [][Next]_vars

\* The process is scheduled as long as it has a step to take, and the steps
\* that end by themselves do end: the startup, the handler (the messaging
\* client gives up with a TelegramError) and the sleep.  The try block gets
\* no fairness: requests.get is called without a timeout (lines 69-73), so
\* a request that is never answered keeps main at the try block for ever.
LiveSpec == Spec /\ WF_vars(Startup) /\ WF_vars(Except) /\ WF_vars(Finally)

TypeOK ==
    /\ env \in Environments
    /\ pc \in {"main", "try", "except", "finally", "finally_raise", "exited"}
    /\ timestamp \in {StartTime} \cup Dates
    /\ ticks \in 0..MaxTicks

-----------------------------------------------------------------------------
(* Vocabulary of the properties.  A tick is in progress while answer is    *)
(* set; at pc = "finally" the try block and the handler are done and       *)
(* trace holds everything the tick did before its sleep.                   *)

TickSends == Sends(trace)

TickDone == pc = "finally"

GotBody == answer.kind = "http" /\ answer.code = HTTP_OK /\ answer.json = "ok"

MappingBody == GotBody /\ IsDict(answer.body)

LacksHomeworks == MappingBody /\ ~HasKey(answer.body, "homeworks")

HomeworksNotList ==
    /\ MappingBody
    /\ HasKey(answer.body, "homeworks")
    /\ ~IsList(answer.body.d["homeworks"])

\* the body passes validation and has a first homework entry
HasFirstHomework ==
    /\ MappingBody
    /\ HasKey(answer.body, "homeworks")
    /\ HasKey(answer.body, "current_date")
    /\ IsList(answer.body.d["homeworks"])
    /\ answer.body.d["homeworks"].items # <<>>

FirstHomework == answer.body.d["homeworks"].items[1]

\* the tick ran to the comparison: nothing was raised
TickSucceeded == TickDone /\ error = NoError

\* the message of a tick that ran to the comparison
Rendered == current_status_of(answer.body.d["homeworks"]).val

\* the handler's report of exc: one send attempt to the chat with its text
ReportedOnce(exc) ==
    /\ Len(TickSends) = 1
    /\ TickSends[1].chat_id = env.TELEGRAM_CHAT_ID
    /\ TickSends[1].text = ErrorPrefix \o ErrText(exc)

HasErrorLog(msg) == \E i \in 1..Len(trace) : trace[i] = LogEv("error", msg)

EmptyHomeworksError ==
    Exc("EmptyResponseError", "Otvet servera ne soderzhit klyuch homeworks")
EmptyDateError ==
    Exc("EmptyResponseError", "Otvet servera ne soderzhit klyuch current_date")
NotMappingError ==
    Exc("TypeError", "Otvet servera prihodit ne v vide slovarya")
NotListError ==
    Exc("TypeError", "Znachenie s klyuchom homeworks ne yavlyaetsya spiskom")

-----------------------------------------------------------------------------
\* C1 as stated: a tick whose response is a mapping without `homeworks`
\* ends without any call to the messaging client.
C1_NoSendOnMissingHomeworks ==
    (TickDone /\ LacksHomeworks) => TickSends = <<>>

\* C1 amended: a tick whose response is a mapping without `homeworks` raises
\* the empty-response error, which the top-level handler catches and reports
\* with exactly one send attempt carrying the error text; the loop goes on.
C1_MissingHomeworksReported ==
    LacksHomeworks =>
        /\ pc \in {"except", "finally"}
        /\ error = EmptyHomeworksError
        /\ pc = "except" => TickSends = <<>>
        /\ pc = "finally" => ReportedOnce(EmptyHomeworksError)

C1_Witness ==
    /\ TickDone /\ LacksHomeworks
    /\ Len(TickSends) = 1
    /\ TickSends[1].text =
           "Sboy v rabote programmy: Otvet servera ne soderzhit klyuch homeworks"

-----------------------------------------------------------------------------
\* the first exception raised in the tick in progress: the one the query
\* raised and handled itself, if any, else the one that left the try block
FirstRaised ==
    IF answer.kind = "transport" THEN Exc("RequestException", answer.text)
    ELSE IF answer.kind = "http" /\ answer.code = HTTP_OK
            /\ answer.json = "request_error"
    THEN Exc("RequestException", JsonErrorText)
    ELSE error

\* C2 as stated: every exception raised during a tick, a failed query
\* included, is caught at the top level, logged and sent with its text.
C2_EveryExceptionSent ==
    (TickDone /\ FirstRaised # NoError) =>
        /\ HasErrorLog(ErrorPrefix \o ErrText(FirstRaised))
        /\ ReportedOnce(FirstRaised)

\* the answer makes the query, the validation or the parsing raise
AnswerFails ==
    LET q == get_api_answer(before.timestamp, answer) IN
    \/ ~q.ok
    \/ ~check_response(q.val).ok
    \/ ~current_status_of(check_response(q.val).val).ok

\* C2 amended: every exception that leaves the query, the validation or the
\* parsing is caught by the top-level handler, logged and reported with one
\* send attempt carrying its text, and the loop goes on; a transport
\* failure, or an undecodable body that the HTTP library reports as a
\* request exception, is caught and logged inside the query, which then
\* returns nothing, and the exception caught and reported at the top level
\* is the type error of the validation; an undecodable body that the
\* library reports as a plain value error leaves the query and is reported
\* at the top level with its own text.
C2_EscapedExceptionSent ==
    /\ pc # "finally_raise"
    /\ pc = "exited" => ticks = 0
    /\ answer # NoAnswer => (AnswerFails <=> error # NoError)
    /\ (TickDone /\ error # NoError) =>
           /\ HasErrorLog(ErrorPrefix \o ErrText(error))
           /\ ReportedOnce(error)
    /\ (answer.kind = "transport" \/ answer.json = "request_error") =>
           /\ error = NotMappingError
           /\ \E i \in 1..Len(trace) : trace[i].ev = "log" /\ trace[i].level = "error"
    /\ answer.json = "value_error" =>
           /\ error = Exc("ValueError", JsonErrorText)
           /\ pc = "except" => TickSends = <<>>
           /\ pc = "finally" =>
                  TickSends[1].text = "Sboy v rabote programmy: " \o JsonErrorText

C2_Witness ==
    /\ TickDone
    /\ answer.kind = "transport"
    /\ error = NotMappingError
    /\ ReportedOnce(NotMappingError)
    /\ HasErrorLog(ErrorPrefix \o "Otvet servera prihodit ne v vide slovarya")

-----------------------------------------------------------------------------
\* C3: a tick whose message equals last_status sends nothing: the same
\* status on consecutive ticks is not notified again.
C3_NoRepeat ==
    (TickSucceeded /\ Rendered = before.last_status) =>
        /\ TickSends = <<>>
        /\ last_status = before.last_status

C3_Witness ==
    /\ TickSucceeded
    /\ HasFirstHomework
    /\ Rendered = Render("hw1", "approved")
    /\ before.last_status = Render("hw1", "approved")
    /\ TickSends = <<>>

-----------------------------------------------------------------------------
\* C4: a tick whose message differs from last_status sends exactly one
\* notification, carrying the new message; from `reviewing` to `rejected`
\* of the same homework it is the `rejected` sentence.
C4_ChangeNotifiedOnce ==
    (TickSucceeded /\ Rendered # before.last_status) =>
        /\ Len(TickSends) = 1
        /\ TickSends[1].chat_id = env.TELEGRAM_CHAT_ID
        /\ TickSends[1].text = Rendered
        /\ \A n \in HomeworkNames :
              ( /\ before.last_status = Render(n, "reviewing")
                /\ HasFirstHomework
                /\ FirstHomework = Dict([homework_name |-> n, status |-> Str("rejected")]) )
              => TickSends[1].text =
                     "Izmenilsya status proverki raboty \"" \o n \o "\". "
                         \o HOMEWORK_VERDICTS["rejected"]

C4_Witness ==
    /\ TickSucceeded
    /\ before.last_status = Render("hw1", "reviewing")
    /\ HasFirstHomework
    /\ FirstHomework = Dict([homework_name |-> "hw1", status |-> Str("rejected")])
    /\ Len(TickSends) = 1
    /\ TickSends[1].text =
           "Izmenilsya status proverki raboty \"hw1\". Rabota proverena: u revyuera est zamechaniya."

-----------------------------------------------------------------------------
\* C5: every tick, failed or not, ends with exactly one sleep of the retry
\* period, after its single query and before the next one: no two queries
\* without a sleep between them.
C5_SleepBetweenQueries ==
    /\ (pc = "try" /\ ticks > 0) =>
           /\ Len(trace) = 1
           /\ IsSleep(trace[1])
           /\ trace[1].secs = RETRY_PERIOD
    /\ pc \in {"except", "finally", "finally_raise"} =>
           /\ IsQuery(trace[1])
           /\ Len(Queries(trace)) = 1
           /\ Sleeps(trace) = <<>>

\* a tick that raised has slept and the next query is due
C5_Witness ==
    /\ pc = "try"
    /\ trace = <<SleepEv(600, TRUE, FALSE)>>

-----------------------------------------------------------------------------
\* C6: once the loop has started, whatever outcome the query, the
\* validation, the parsing and the sends have, the loop comes back to the
\* top, where the next tick begins with its query; main is left only from
\* the startup, before any tick.  (A query that is never answered has no
\* outcome: main then waits at the try block, and is not terminated.)
C6_LoopNeverEnds ==
    /\ []<>(pc = "try" \/ ticks = 0)
    /\ [](pc \in {"except", "finally"} => <>(pc = "try"))
    /\ [][pc' = "exited" => pc = "main"]_vars

\* back at the top of the loop, ticks later, after a tick that raised and
\* whose error report was not delivered
C6_Witness ==
    /\ pc = "try" /\ ticks = MaxTicks
    /\ Len(trace) = 1
    /\ trace[1].ev = "sleep" /\ trace[1].raised /\ trace[1].undelivered

-----
\* C7: with any of the three credentials missing, main fails before the
\* loop: a critical log entry, and never a query, a send or a sleep.
C7_MissingCredentialFatal ==
    (\E c \in Credentials : env[c] = None) =>
        /\ pc \in {"main", "exited"}
        /\ ticks = 0
        /\ answer = NoAnswer
        /\ Queries(trace) = <<>> /\ Sends(trace) = <<>> /\ Sleeps(trace) = <<>>
        /\ pc = "exited" =>
              /\ trace = <<LogEv("critical", TokenErrorText)>>
              /\ error = Exc("TokenError", TokenErrorText)

C7_Witness ==
    /\ pc = "exited"
    /\ env = [PRACTICUM_TOKEN |-> Str("token"), TELEGRAM_TOKEN |-> Str("token"),
              TELEGRAM_CHAT_ID |-> None]
    /\ trace = <<LogEv("critical", "Odin iz tokenov ili neskolko ne opredeleny")>>

-----------------------------------------------------------------------------
\* C8 as stated: a credential that is present but empty is fatal at
\* startup, like an absent one, and the loop is never entered.
C8_EmptyCredentialFatal ==
    (\E c \in Credentials : env[c] = Str("")) => pc \in {"main", "exited"}

-----------------------------------------------------------------------------
\* C9 as stated: whenever `homeworks` is present and not a sequence,
\* whatever the other keys, validation raises a type error and the tick
\* sends nothing.
C9_TypeErrorNoSend ==
    (TickDone /\ HomeworksNotList) =>
        /\ error.type = "TypeError"
        /\ TickSends = <<>>

\* C9 amended: when `homeworks` is present and not a sequence, validation
\* raises the type error if `current_date` is present too, and the
\* empty-response error for `current_date` if it is absent; in both cases
\* last_status and the watermark stay as they were, no status message is
\* sent, and the handler reports the error with one send attempt.
C9_NotListReported ==
    HomeworksNotList =>
        /\ pc \in {"except", "finally"}
        /\ error = IF HasKey(answer.body, "current_date")
                   THEN NotListError ELSE EmptyDateError
        /\ last_status = before.last_status
        /\ timestamp = before.timestamp
        /\ pc = "except" => TickSends = <<>>
        /\ pc = "finally" => ReportedOnce(error)

C9_Witness ==
    /\ TickDone
    /\ answer.body = Dict([homeworks |-> Str("not a list"), current_date |-> 1])
    /\ error.type = "TypeError"
    /\ Len(TickSends) = 1
    /\ TickSends[1].text =
           "Sboy v rabote programmy: Znachenie s klyuchom homeworks ne yavlyaetsya spiskom"

-----------------------------------------------------------------------------
FirstLacksKey ==
    /\ HasFirstHomework
    /\ \E k \in HomeworkKeys : ~HasKey(FirstHomework, k)

\* C10 as stated: when the first homework lacks `homework_name` or
\* `status`, parsing raises a lookup error and the tick sends nothing.
C10_KeyErrorNoSend ==
    (TickDone /\ FirstLacksKey) =>
        /\ error.type = "KeyError"
        /\ TickSends = <<>>

\* C10 amended: when the first homework lacks `homework_name` or `status`,
\* parsing raises a lookup error naming the missing key (`homework_name`
\* when both are missing); last_status and the watermark stay as they were,
\* no status message is sent, and the handler reports the error with one
\* send attempt carrying the quoted error text.
C10_MissingKeyReported ==
    FirstLacksKey =>
        /\ pc \in {"except", "finally"}
        /\ error = Exc("KeyError",
                       IF ~HasKey(FirstHomework, "homework_name")
                       THEN "Otvet servera ne soderzhit klyuch homework_name"
                       ELSE "Otvet servera ne soderzhit klyuch status")
        /\ last_status = before.last_status
        /\ timestamp = before.timestamp
        /\ pc = "except" => TickSends = <<>>
        /\ pc = "finally" =>
              /\ ReportedOnce(error)
              /\ TickSends[1].text = ErrorPrefix \o "'" \o error.arg \o "'"

C10_Witness ==
    /\ TickDone
    /\ HasFirstHomework
    /\ FirstHomework = Dict([status |-> Str("approved")])
    /\ error.type = "KeyError"
    /\ Len(TickSends) = 1
    /\ TickSends[1].text =
           "Sboy v rabote programmy: 'Otvet servera ne soderzhit klyuch homework_name'"

-----------------------------------------------------------------------------
\* the first homework has both keys
FirstHasBothKeys ==
    /\ HasFirstHomework
    /\ \A k \in HomeworkKeys : HasKey(FirstHomework, k)

FirstStatusUnknown ==
    /\ FirstHasBothKeys
    /\ FirstHomework.d["status"]
           \notin {Str("approved"), Str("reviewing"), Str("rejected")}

\* what parsing raises for the status of the first homework: a value error
\* naming a string or null status, a type error for a list
UnknownStatusError ==
    LET st == FirstHomework.d["status"] IN
    CASE st.t = "str"  -> Exc("ValueError",
                              "Server peredal nekorrektnyy ili pustoy status: " \o st.v)
      [] st.t = "None" -> Exc("ValueError",
                              "Server peredal nekorrektnyy ili pustoy status: None")
      [] st.t = "list" -> Exc("TypeError", "unhashable type: 'list'")

\* C11 as stated: when the first homework has both keys and a status
\* outside the three verdicts, parsing raises a value error and the tick
\* sends nothing.
C11_ValueErrorNoSend ==
    (TickDone /\ FirstStatusUnknown) =>
        /\ error.type = "ValueError"
        /\ TickSends = <<>>

\* C11 amended: when the first homework has both keys and a status outside
\* the three verdicts, parsing raises a value error whose text names the
\* status when the status is a string, a number or null, and a type error
\* (unhashable type) when it is a list or an object; last_status and the
\* watermark stay as they were, no status message is sent, and the handler
\* reports the error with one send attempt.
C11_UnknownStatusReported ==
    FirstStatusUnknown =>
        /\ pc \in {"except", "finally"}
        /\ error = UnknownStatusError
        /\ last_status = before.last_status
        /\ timestamp = before.timestamp
        /\ pc = "except" => TickSends = <<>>
        /\ pc = "finally" => ReportedOnce(error)

C11_Witness ==
    /\ TickDone
    /\ HasFirstHomework
    /\ FirstHomework = Dict([homework_name |-> "hw1", status |-> Str("unknown")])
    /\ error.type = "ValueError"
    /\ Len(TickSends) = 1
    /\ TickSends[1].text =
           "Sboy v rabote programmy: Server peredal nekorrektnyy ili pustoy status: unknown"

-----------------------------------------------------------------------------
\* the sentence of each verdict, as the table of lines 24-28 has it
VerdictSentence(st) ==
    CASE st = "approved"  -> "Rabota proverena: revyueru vsyo ponravilos. Ura!"
      [] st = "reviewing" -> "Rabota vzyata na proverku revyuerom."
      [] st = "rejected"  -> "Rabota proverena: u revyuera est zamechaniya."

FirstStatusKnown ==
    /\ FirstHasBothKeys
    /\ FirstHomework.d["status"]
           \in {Str("approved"), Str("reviewing"), Str("rejected")}

\* C12: for a homework with a name and one of the three statuses,
\* parse_status returns the template with the name interpolated, followed
\* by the sentence of that status; the three statuses give three different
\* messages for one name.
C12_TemplateRendered ==
    /\ FirstStatusKnown =>
          /\ pc = "finally" /\ error = NoError
          /\ parse_status(FirstHomework).ok
          /\ parse_status(FirstHomework).val =
                 "Izmenilsya status proverki raboty \""
                     \o FirstHomework.d["homework_name"] \o "\". "
                     \o VerdictSentence(FirstHomework.d["status"].v)
          /\ last_status = parse_status(FirstHomework).val
    /\ \A n \in HomeworkNames : \A s1, s2 \in DOMAIN HOMEWORK_VERDICTS :
          s1 # s2 => Render(n, s1) # Render(n, s2)
    /\ DOMAIN HOMEWORK_VERDICTS = {"approved", "reviewing", "rejected"}

C12_Witness ==
    /\ TickDone
    /\ HasFirstHomework
    /\ FirstHomework = Dict([homework_name |-> "hw2", status |-> Str("approved")])
    /\ last_status =
           "Izmenilsya status proverki raboty \"hw2\". Rabota proverena: revyueru vsyo ponravilos. Ura!"

-----------------------------------------------------------------------------
\* position in the trace of the send attempt that failed
FailedSendAt(i) == i \in 1..Len(trace) /\ IsSend(trace[i]) /\ ~trace[i].ok

\* C13: a failure of the messaging client during a send is logged, does not
\* leave send_message (the tick goes on as after a delivered send), and is
\* not retried in that tick.
C13_SendFailureSwallowed ==
    \A i \in 1..Len(trace) : FailedSendAt(i) =>
        /\ Len(trace) > i
        /\ trace[i + 1] =
               LogEv("error", "Oshibka otpravki soobshcheniya: " \o TelegramErrorText)
        /\ Len(TickSends) = 1
        /\ pc = "finally"
        /\ error = NoError =>
              /\ trace[Len(trace)] =
                     LogEv("debug", "Soobshchenie uspeshno otpravleno: "
                                        \o trace[i].text)
              /\ last_status = trace[i].text
              /\ timestamp = answer.body.d["current_date"]
        /\ error # NoError => trace[i].text = ErrorPrefix \o ErrText(error)

C13_Witness ==
    /\ TickSucceeded
    /\ Len(TickSends) = 1
    /\ ~TickSends[1].ok
    /\ TickSends[1].text = Render("hw1", "approved")
    /\ last_status = Render("hw1", "approved")

-----------------------------------------------------------------------------
InTick == answer # NoAnswer

\* the body passes validation
ValidBody ==
    /\ MappingBody
    /\ HasKey(answer.body, "homeworks")
    /\ HasKey(answer.body, "current_date")
    /\ IsList(answer.body.d["homeworks"])

\* C14: each query carries the watermark as from_date; the watermark is the
\* startup time until a tick sends a status change, and then the
\* current_date of the response of the latest such tick: it moves on the
\* ticks whose message differs from last_status, and on no other step.
C14_Watermark ==
    /\ [](InTick =>
            /\ IsQuery(trace[1])
            /\ trace[1].from_date = before.timestamp
            /\ Len(Queries(trace)) = 1)
    /\ [](last_status = "" => timestamp = StartTime)
    /\ [](TickSucceeded =>
            IF Rendered # before.last_status
            THEN timestamp = answer.body.d["current_date"]
            ELSE timestamp = before.timestamp)
    /\ []((InTick /\ error # NoError) => timestamp = before.timestamp)
    /\ [][pc # "try" => timestamp' = timestamp]_vars

\* an unchanged status with a newer current_date: the watermark stays
C14_Witness ==
    /\ TickSucceeded
    /\ Rendered = before.last_status
    /\ before.timestamp = 1
    /\ answer.body.d["current_date"] = 2
    /\ timestamp = 1
    /\ trace[1] = QueryEv(1)

-----------------------------------------------------------------------------
EmptyHomeworks == ValidBody /\ answer.body.d["homeworks"].items = <<>>

\* C15: a valid response with an empty list gives the no-status text, which
\* is compared, sent and stored like any status: sent once when it differs
\* from last_status, not sent when last_status is already that text.
C15_EmptyListDefault ==
    EmptyHomeworks =>
        /\ pc = "finally" /\ error = NoError
        /\ last_status = "Status otsutstvuet"
        /\ IF before.last_status # "Status otsutstvuet"
           THEN /\ Len(TickSends) = 1
                /\ TickSends[1].text = "Status otsutstvuet"
                /\ timestamp = answer.body.d["current_date"]
           ELSE /\ TickSends = <<>>
                /\ timestamp = before.timestamp

\* from a verdict message to an empty list: the no-status text is sent
C15_Witness ==
    /\ TickDone /\ EmptyHomeworks
    /\ before.last_status = Render("hw1", "approved")
    /\ Len(TickSends) = 1
    /\ TickSends[1].text = "Status otsutstvuet"
    /\ last_status = "Status otsutstvuet"

-----------------------------------------------------------------------------
\* C16: the outcome of a tick with a valid response is fixed by the first
\* homework, the current_date and the state before the tick: sends, error
\* and new state are those of parse_status on the first entry, whatever the
\* later entries are.
C16_FirstEntryDecides ==
    HasFirstHomework =>
        LET p == parse_status(FirstHomework) IN
        IF p.ok
        THEN /\ pc = "finally" /\ error = NoError
             /\ last_status = p.val
             /\ IF p.val # before.last_status
                THEN /\ Len(TickSends) = 1
                     /\ TickSends[1].text = p.val
                     /\ timestamp = answer.body.d["current_date"]
                ELSE /\ TickSends = <<>>
                     /\ timestamp = before.timestamp
        ELSE /\ pc \in {"except", "finally"}
             /\ error = p.exc
             /\ last_status = before.last_status
             /\ timestamp = before.timestamp
             /\ pc = "finally" => ReportedOnce(p.exc)

\* a well-formed first entry followed by an entry without keys
C16_Witness ==
    /\ TickSucceeded
    /\ HasFirstHomework
    /\ answer.body.d["homeworks"].items =
           <<Dict([homework_name |-> "hw1", status |-> Str("rejected")]), Dict(<<>>)>>
    /\ Len(TickSends) = 1
    /\ TickSends[1].text = Render("hw1", "rejected")
    /\ last_status = Render("hw1", "rejected")

-----------------------------------------------------------------------------
\* the messages a tick can render
StatusMessages ==
    { NoStatusText } \cup
    { Render(n, st) : n \in HomeworkNames, st \in DOMAIN HOMEWORK_VERDICTS }

\* C17: a tick that raises leaves the watermark and last_status as they
\* were; last_status is never an error text; and a status notified before a
\* failed tick is not notified again when it comes back after it.
C17_FailedTickKeepsState ==
    /\ (InTick /\ error # NoError) =>
           /\ timestamp = before.timestamp
           /\ last_status = before.last_status
    /\ last_status \in {""} \cup StatusMessages
    /\ (TickSucceeded /\ before.after_raise /\ Rendered = before.last_status) =>
           TickSends = <<>>

\* the handler has reported a failure and the stored status is untouched
C17_Witness ==
    /\ TickDone /\ error # NoError
    /\ before.last_status = Render("hw1", "approved")
    /\ before.timestamp = 2
    /\ last_status = Render("hw1", "approved")
    /\ timestamp = 2
    /\ Len(TickSends) = 1
    /\ TickSends[1].text = ErrorPrefix \o ErrText(error)

-----------------------------------------------------------------------------
\* C18: a status change whose send fails is stored all the same, with the
\* watermark advanced, and the next tick with the same status does not send
\* it again.
C18_FailedSendNotRetried ==
    /\ (TickSucceeded /\ Undelivered(trace)) =>
           /\ Len(TickSends) = 1
           /\ TickSends[1].text = Rendered
           /\ last_status = Rendered
           /\ timestamp = answer.body.d["current_date"]
    /\ ( /\ TickSucceeded
         /\ before.after_undelivered /\ ~before.after_raise
         /\ Rendered = before.last_status ) => TickSends = <<>>

\* the tick after a status change that was not delivered: same status, no send
C18_Witness ==
    /\ TickSucceeded
    /\ before.after_undelivered /\ ~before.after_raise
    /\ HasFirstHomework
    /\ Rendered = Render("hw1", "rejected")
    /\ before.last_status = Render("hw1", "rejected")
    /\ TickSends = <<>>

-----------------------------------------------------------------------------
\* C19: a tick makes at most one send attempt: the status message of a tick
\* that did not raise, or the error report of one that did, never both.
C19_AtMostOneSend ==
    /\ Len(Sends(trace)) <= 1
    /\ (pc = "try" \/ pc = "main" \/ pc = "exited") => Sends(trace) = <<>>
    /\ (TickDone /\ TickSends # <<>>) =>
           TickSends[1].text =
               IF error = NoError THEN last_status ELSE ErrorPrefix \o ErrText(error)

\* the one attempt of a failed tick, itself failed
C19_Witness ==
    /\ TickDone
    /\ error.type = "Exception"
    /\ Len(TickSends) = 1
    /\ ~TickSends[1].ok
    /\ Len(Logs(trace)) = 2

-----------------------------------------------------------------------------
FirstTick == InTick /\ ticks = 1

\* C20: the first tick after startup begins with last_status empty, every
\* message a tick can render is non-empty, and so the first tick makes
\* exactly one send attempt whatever the API returns.
C20_FirstTickSends ==
    /\ FirstTick =>
           /\ before.last_status = ""
           /\ before.timestamp = StartTime
           /\ pc = "except" => TickSends = <<>>
           /\ pc = "finally" => Len(TickSends) = 1
    /\ "" \notin StatusMessages

\* a first tick with an empty list sends the no-status text
C20_Witness ==
    /\ TickDone /\ FirstTick
    /\ EmptyHomeworks
    /\ TickSends # <<>>
    /\ TickSends[1].text = NoStatusText

====
